---- MODULE Spec2Model ----
(***************************************************************************)
(* Model of the Dataset construction pipeline (Dataset.ipynb) and of the   *)
(* helpers it uses from Utils.ipynb.                                       *)
(*                                                                         *)
(* Time is counted in ticks; one minute is Minute ticks, where Minute is   *)
(* a common multiple of every possible snapshot size, so that the mean of  *)
(* a snapshot's timestamps (comp_snapshot_timestamps) is computed exactly. *)
(* Array positions are kept 0-based as in the Python source; PyAt and      *)
(* PySlice give Python's indexing (negative positions wrap around).        *)
(***************************************************************************)
EXTENDS Integers, Sequences, FiniteSets, TLC

VARIABLES
    pm_gps,              \* the caller's primary table: rows [t, pos, pm, key]
    snapshot_minutes,    \* constructor argument
    weather,             \* constructor argument: [given, index] (index = weather timestamps)
    minutes_to_weather,  \* constructor argument, NoneInt when omitted
    datetime_to_vec,     \* constructor argument: [given]
    pc,                  \* position inside Dataset.__init__ / lifecycle of the object
    pm_values,           \* self.pm_values
    gps_values,          \* self.gps_values
    weather_values,      \* self.weather_values: [some, val]
    time_values,         \* self.time_values: [some, val]
    pm_gps_idx,          \* self.pm_gps_idx
    timestamps,          \* self.timestamps
    weather_idx,         \* self.weather_idx
    seg_idx,             \* history: the snapshot rows produced by segmentation
    unit_idx,            \* history: the batch positions remove_unit_batches deleted
    key,                 \* argument of the last __getitem__ call: [some, val]
    ret,                 \* value returned by the last __getitem__ call: [some, val]
    raised,              \* exception raised by the last call ("" when none)
    previous             \* history: the Dataset an earlier construction built from pm_gps

vars == <<pm_gps, snapshot_minutes, weather, minutes_to_weather, datetime_to_vec, pc,
          pm_values, gps_values, weather_values, time_values, pm_gps_idx, timestamps,
          weather_idx, seg_idx, unit_idx, key, ret, raised, previous>>

(***************************************************************************)
(* Bounds of the model.                                                    *)
(***************************************************************************)
MaxReadings == 4          \* rows of the primary table
MaxTime == 4              \* raw timestamps are whole minutes 0..MaxTime
MaxKey == 2               \* __getitem__ is called with keys -MaxKey..MaxKey

(***************************************************************************)
(* Values.                                                                 *)
(***************************************************************************)
NaT == -999999            \* numpy's not-a-time (mean of an empty slice)
NoneInt == -1             \* Python None for an integer argument
NoKey == 0                \* the temporary grouping column is absent

RECURSIVE Gcd(_, _)
Gcd(a, b) == IF b = 0 THEN a ELSE Gcd(b, a % b)

RECURSIVE LcmUpTo(_)
LcmUpTo(n) == IF n <= 1 THEN 1 ELSE LET l == LcmUpTo(n - 1) IN (l * n) \div Gcd(l, n)

\* The longest primary table of the model has one row more than MaxReadings.
LongReadings == MaxReadings + 1

Minute == LcmUpTo(LongReadings)

Abs(x) == IF x < 0 THEN -x ELSE x

NoneOpt == [some |-> FALSE, val |-> <<>>]
Some(v) == [some |-> TRUE, val |-> v]

RECURSIVE SumSeq(_)
SumSeq(s) == IF Len(s) = 0 THEN 0 ELSE Head(s) + SumSeq(Tail(s))

\* Python's arr[i] for an integer i: negative positions count from the end.
PyInRange(arr, i) == -Len(arr) <= i /\ i < Len(arr)
PyAt(arr, i) == IF i < 0 THEN arr[Len(arr) + i + 1] ELSE arr[i + 1]

\* Python's arr[s:e] (step 1).
PyClamp(arr, i) ==
    IF i < 0 THEN (IF Len(arr) + i < 0 THEN 0 ELSE Len(arr) + i)
    ELSE (IF i > Len(arr) THEN Len(arr) ELSE i)
PySlice(arr, s, e) ==
    LET lo == PyClamp(arr, s)
        hi == PyClamp(arr, e)
    IN  IF hi <= lo THEN <<>> ELSE [k \in 1..(hi - lo) |-> arr[lo + k]]

\* arr[mask] for a boolean mask of the same length.
RECURSIVE MaskSelect(_, _)
MaskSelect(arr, mask) ==
    IF Len(arr) = 0 THEN <<>>
    ELSE (IF Head(mask) THEN <<Head(arr)>> ELSE <<>>) \o MaskSelect(Tail(arr), Tail(mask))

(***************************************************************************)
(* Helpers of Dataset.ipynb and Utils.ipynb.                               *)
(***************************************************************************)

\* Variant: a timestamp on a boundary goes to the boundary before it.
Floor_below(t, T) ==
    t - (IF t % (T * Minute) = 0 THEN T * Minute ELSE t % (T * Minute))

\* pm_gps.index.floor(f'{snapshot_minutes}min')
Floor(t, T) == t - (t % (T * Minute))

\* The table's index and value columns as arrays.
IndexValues(df) == [i \in 1..Len(df) |-> df[i].t]
PmColumn(df) == [i \in 1..Len(df) |-> df[i].pm]
GpsColumn(df) == [i \in 1..Len(df) |-> df[i].pos]

\* Lexicographic order on the grouping key (index timestamp, position tuple).
KeyLess(a, b) == a[1] < b[1] \/ (a[1] = b[1] /\ a[2] < b[2])

RECURSIVE SortKeys(_)
SortKeys(S) ==
    IF S = {} THEN <<>>
    ELSE LET m == CHOOSE a \in S : \A b \in S \ {a} : KeyLess(a, b)
         IN  <<m>> \o SortKeys(S \ {m})

\* Variant: every group is labelled with the minute that follows its timestamp.
average_duplicates_late_label(df) ==
    LET withcol == [i \in 1..Len(df) |-> [df[i] EXCEPT !.key = df[i].pos]]
        keys == SortKeys({<<withcol[i].t, withcol[i].key>> : i \in 1..Len(withcol)})
        grp(k) == SelectSeq(withcol, LAMBDA r : r.t = k[1] /\ r.key = k[2])
        mean(k) == SumSeq(PmColumn(grp(k))) \div Len(grp(k))
    IN  [df  |-> withcol,
         ret |-> [g \in 1..Len(keys) |->
                    [t |-> keys[g][1] + Minute, pos |-> keys[g][2], pm |-> mean(keys[g]),
                     key |-> NoKey]]]

\* Variant: the rows are grouped by the index timestamp alone.
average_duplicates_by_timestamp(df) ==
    LET withcol == [i \in 1..Len(df) |-> [df[i] EXCEPT !.key = df[i].pos]]
        first(t) == CHOOSE i \in 1..Len(withcol) :
                       withcol[i].t = t /\ \A j \in 1..(i - 1) : withcol[j].t # t
        keys == SortKeys({<<withcol[i].t, withcol[first(withcol[i].t)].key>>
                            : i \in 1..Len(withcol)})
        grp(k) == SelectSeq(withcol, LAMBDA r : r.t = k[1])
        mean(k) == SumSeq(PmColumn(grp(k))) \div Len(grp(k))
    IN  [df  |-> withcol,
         ret |-> [g \in 1..Len(keys) |->
                    [t |-> keys[g][1], pos |-> keys[g][2], pm |-> mean(keys[g]),
                     key |-> NoKey]]]

\* average_duplicates: adds the temporary tuple column to df IN PLACE (df), and
\* RETURNS a new table (ret) with one row per (index, tuple) group, the numeric
\* columns averaged, groups in key order, the temporary column dropped.
average_duplicates(df) ==
    LET withcol == [i \in 1..Len(df) |-> [df[i] EXCEPT !.key = df[i].pos]]
        keys == SortKeys({<<withcol[i].t, withcol[i].key>> : i \in 1..Len(withcol)})
        grp(k) == SelectSeq(withcol, LAMBDA r : r.t = k[1] /\ r.key = k[2])
        mean(k) == SumSeq(PmColumn(grp(k))) \div Len(grp(k))
    IN  [df  |-> withcol,
         ret |-> [g \in 1..Len(keys) |->
                    [t |-> keys[g][1], pos |-> keys[g][2], pm |-> mean(keys[g]),
                     key |-> NoKey]]]

\* prep_pm_gps: the table as it is left in place. set_index(..., inplace=True)
\* replaces the index by the floored one; the table returned by
\* average_duplicates is not assigned to anything, so only its in-place effect
\* (the temporary column) remains.
prep_pm_gps(df, T) ==
    LET floored == [i \in 1..Len(df) |-> [df[i] EXCEPT !.t = Floor(df[i].t, T)]]
    IN  average_duplicates(floored).df

\* np.nonzero(np.diff(index) >= timedelta(snapshot_minutes)): the 0-based
\* positions i with index[i+1] - index[i] >= snapshot_minutes.
SnapshotBoundaries(index, T) ==
    SelectSeq([i \in 1..(Len(index) - 1) |-> i - 1],
              LAMBDA i : index[i + 2] - index[i + 1] >= T * Minute)

\* comp_snapshot_indices: column_stack(insert(indices, 0, 0), append(indices, len)).
comp_snapshot_indices(index, T) ==
    LET indices == SnapshotBoundaries(index, T)
        starts == <<0>> \o indices
        ends == indices \o <<Len(index)>>
    IN  [k \in 1..Len(starts) |-> <<starts[k], ends[k]>>]

\* timestamps[start:end].view('i8').mean() cast to datetime64: the mean of an
\* empty slice is nan, which the cast turns into NaT.
MeanTimestamp(slice) ==
    IF Len(slice) = 0 THEN NaT ELSE SumSeq(slice) \div Len(slice)

comp_snapshot_timestamps(snapshot_indices, ts) ==
    [k \in 1..Len(snapshot_indices) |->
        MeanTimestamp(PySlice(ts, snapshot_indices[k][1], snapshot_indices[k][2]))]

\* np.searchsorted(arr, v) (side='left'); NaT sorts after every timestamp.
searchsorted(arr, v) ==
    IF v = NaT THEN Len(arr)
    ELSE Cardinality({k \in 1..Len(arr) : arr[k] < v})

\* Variant: the left neighbour also wins when it is exactly as close.
find_nearest_one_ties_left(arr, v) ==
    LET idx == searchsorted(arr, v)
        left == PyAt(arr, idx - 1)
        right == PyAt(arr, idx % Len(arr))
        closer == v # NaT /\ Abs(left - v) <= Abs(right - v)
    IN  idx - (IF closer THEN 1 ELSE 0)

\* One element of find_nearest. Any comparison with NaT is False.
find_nearest_one(arr, v) ==
    LET idx == searchsorted(arr, v)
        left == PyAt(arr, idx - 1)
        right == PyAt(arr, idx % Len(arr))
        closer == v # NaT /\ Abs(left - v) < Abs(right - v)
    IN  idx - (IF closer THEN 1 ELSE 0)

\* find_nearest(arr, vals): arr[idx-1] raises IndexError on an empty arr.
find_nearest(arr, vals) ==
    IF Len(arr) = 0 /\ Len(vals) > 0
    THEN [ok |-> FALSE, val |-> <<>>]
    ELSE [ok |-> TRUE, val |-> [k \in 1..Len(vals) |-> find_nearest_one(arr, vals[k])]]

\* Variant: the tolerance is exclusive (< instead of <=).
weather_available_mask_exclusive(weather_index_values, widx, ts, tol) ==
    IF \E k \in 1..Len(widx) : ~PyInRange(weather_index_values, widx[k])
    THEN [ok |-> FALSE, val |-> <<>>]
    ELSE [ok |-> TRUE,
          val |-> [k \in 1..Len(widx) |->
                     /\ tol # NoneInt
                     /\ ts[k] # NaT
                     /\ Abs(PyAt(weather_index_values, widx[k]) - ts[k]) < tol * Minute]]

\* weather_available_mask: weather_index_values[self.weather_idx] raises
\* IndexError when a position is out of bounds; np.timedelta64(None, 'm') is NaT
\* and every comparison with NaT is False.
weather_available_mask(weather_index_values, widx, ts, tol) ==
    IF \E k \in 1..Len(widx) : ~PyInRange(weather_index_values, widx[k])
    THEN [ok |-> FALSE, val |-> <<>>]
    ELSE [ok |-> TRUE,
          val |-> [k \in 1..Len(widx) |->
                     /\ tol # NoneInt
                     /\ ts[k] # NaT
                     /\ Abs(PyAt(weather_index_values, widx[k]) - ts[k]) <= tol * Minute]]

\* Variant: the mask is not applied to weather_idx.
remove_snapshots_without_weather_unmasked_idx(idx, ts, widx, mask) ==
    [pm_gps_idx |-> MaskSelect(idx, mask),
     timestamps |-> MaskSelect(ts, mask),
     weather_idx |-> widx]

\* remove_snapshots_without_weather: the three parallel arrays after arr[mask].
remove_snapshots_without_weather(idx, ts, widx, mask) ==
    [pm_gps_idx |-> MaskSelect(idx, mask),
     timestamps |-> MaskSelect(ts, mask),
     weather_idx |-> MaskSelect(widx, mask)]

\* The calendar encoder (timestamp_to_vec): a truncating encoding of the
\* timestamp; indexing the one-hot vector with NaT's fields raises.
CalendarOk(t) == t # NaT
timestamp_to_vec(t) == t \div Minute

map_timestamps_to_features(ts) == [k \in 1..Len(ts) |-> timestamp_to_vec(ts[k])]

\* The gap the batch splitter measures between snapshot j and snapshot j+1
\* (0-based j): timestamps[start of j+1] - timestamps[end of j - 1].
SnapshotGap(ts, snapshot_indices, j) ==
    PyAt(ts, snapshot_indices[j + 2][1]) - PyAt(ts, snapshot_indices[j + 1][2] - 1)

\* split_snapshot_indices_to_batches: np.nonzero(gaps > timedelta(snapshot_minutes))[0]
split_snapshot_indices_to_batches(ts, snapshot_indices, T) ==
    SelectSeq([j \in 1..(Len(snapshot_indices) - 1) |-> j - 1],
              LAMBDA j : SnapshotGap(ts, snapshot_indices, j) > T * Minute)

\* Variant: every part but the first also takes the element before its cut.
np_split_overlapping(arr, splits) ==
    LET bounds == <<0>> \o splits \o <<Len(arr)>>
    IN  [b \in 1..(Len(splits) + 1) |->
           PySlice(arr, IF b = 1 \/ bounds[b] = 0 THEN bounds[b] ELSE bounds[b] - 1,
                   bounds[b + 1])]

\* np.split(arr, splits): arr[:s1], arr[s1:s2], ..., arr[sk:].
np_split(arr, splits) ==
    LET bounds == <<0>> \o splits \o <<Len(arr)>>
    IN  [b \in 1..(Len(splits) + 1) |-> PySlice(arr, bounds[b], bounds[b + 1])]

\* Variant: only empty batches count as unit batches (n < 1).
find_indices_of_unit_batches_empty_only(batch_indices) ==
    SelectSeq([i \in 1..Len(batch_indices) |-> i - 1],
              LAMBDA i : Len(batch_indices[i + 1]) < 1)

\* find_indices_of_unit_batches: 0-based positions of the batches of length <= 1.
find_indices_of_unit_batches(batch_indices) ==
    SelectSeq([i \in 1..Len(batch_indices) |-> i - 1],
              LAMBDA i : Len(batch_indices[i + 1]) <= 1)

\* del arr[i]
DelAt(arr, i) == [k \in 1..(Len(arr) - 1) |-> IF k <= i THEN arr[k] ELSE arr[k + 1]]

\* delete_indices: for idx in sorted(indices, reverse=True): del arr[idx].
\* indices is ascending here, so the last one is deleted first.
RECURSIVE delete_indices(_, _)
delete_indices(arr, indices) ==
    IF Len(indices) = 0 THEN arr
    ELSE delete_indices(DelAt(arr, indices[Len(indices)]),
                        SubSeq(indices, 1, Len(indices) - 1))

\* Variant: weather_idx is left out of the deletion.
remove_unit_batches_skip_weather(idx, ts, tv, wv, widx) ==
    LET unit == find_indices_of_unit_batches(idx)
    IN  [pm_gps_idx |-> delete_indices(idx, unit),
         timestamps |-> delete_indices(ts, unit),
         time_values |-> IF tv.some THEN Some(delete_indices(tv.val, unit)) ELSE tv,
         weather_idx |-> widx]

\* remove_unit_batches: the unit batches are deleted from every per-batch list;
\* time_values and weather_idx only when the stream is configured.
remove_unit_batches(idx, ts, tv, wv, widx) ==
    LET unit == find_indices_of_unit_batches(idx)
    IN  [pm_gps_idx |-> delete_indices(idx, unit),
         timestamps |-> delete_indices(ts, unit),
         time_values |-> IF tv.some THEN Some(delete_indices(tv.val, unit)) ELSE tv,
         weather_idx |-> IF wv.some THEN delete_indices(widx, unit) ELSE widx]

\* Variant: every slice also takes the reading at its end position.
split_by_double_index_inclusive_end(index, arr) ==
    [k \in 1..Len(index) |-> PySlice(arr, index[k][1], index[k][2] + 1)]

\* split_by_double_index: [arr[start:end] for start, end in index]
split_by_double_index(index, arr) ==
    [k \in 1..Len(index) |-> PySlice(arr, index[k][1], index[k][2])]

(***************************************************************************)
(* Inputs of the constructor.                                              *)
(***************************************************************************)
Ascending(n, hi) == {s \in [1..n -> 0..hi] : \A i \in 1..(n - 1) : s[i] <= s[i + 1]}

\* Position of row i: every reading at one place, or readings alternating
\* between two places.
PosPatterns == {"same", "alternate"}
PosOf(pat, i) == IF pat = "same" THEN 1 ELSE 1 + ((i - 1) % 2)

\* Primary tables: ascending whole-minute timestamps, a position and a mass
\* value per row; the temporary grouping column is absent.
Tables ==
    UNION {{[i \in 1..n |-> [t |-> s[i] * Minute, pos |-> PosOf(pat, i),
                              pm |-> i * Minute, key |-> NoKey]]
              : s \in Ascending(n, MaxTime), pat \in PosPatterns}
           : n \in 0..MaxReadings}

\* Primary tables of LongReadings rows taken at one place.
LongTables ==
    {[i \in 1..LongReadings |-> [t |-> s[i] * Minute, pos |-> 1, pm |-> i * Minute,
                                 key |-> NoKey]]
       : s \in Ascending(LongReadings, MaxTime)}

SnapshotMinutes == {1, 2}
Tolerances == {NoneInt, 1}

\* weather=None, or a table with no, one or two rows whose ascending index is
\* given.
WeatherSizes == {0, 1, 2}
Weathers ==
    {[given |-> FALSE, index |-> <<>>]}
    \cup UNION {{[given |-> TRUE, index |-> [i \in 1..n |-> s[i] * Minute]]
                   : s \in Ascending(n, MaxTime)} : n \in WeatherSizes}

\* weather.values: row k of the weather table carries the feature vector k.
WeatherRows(w) == [k \in 1..Len(w.index) |-> k]

Keys == (-MaxKey)..MaxKey

Init ==
    /\ pm_gps \in Tables
    /\ snapshot_minutes \in SnapshotMinutes
    /\ weather \in Weathers
    /\ minutes_to_weather \in (IF weather.given THEN Tolerances ELSE {NoneInt})
    /\ datetime_to_vec \in {[given |-> FALSE], [given |-> TRUE]}
    /\ pc = "raw"
    /\ pm_values = <<>>
    /\ gps_values = <<>>
    /\ weather_values = NoneOpt
    /\ time_values = NoneOpt
    /\ pm_gps_idx = <<>>
    /\ timestamps = <<>>
    /\ weather_idx = <<>>
    /\ seg_idx = <<>>
    /\ unit_idx = <<>>
    /\ key = NoneOpt
    /\ ret = NoneOpt
    /\ raised = ""
    /\ previous = NoneOpt

args == <<snapshot_minutes, weather, minutes_to_weather, datetime_to_vec>>
result == <<unit_idx, key, ret>>

(***************************************************************************)
(* Dataset.__init__, one action per stage.                                 *)
(***************************************************************************)

\* line 134: self.prep_pm_gps(...)
PrepPmGps ==
    /\ pc = "raw"
    /\ pm_gps' = prep_pm_gps(pm_gps, snapshot_minutes)
    /\ pc' = "indexed"
    /\ UNCHANGED <<args, previous, pm_values, gps_values, weather_values, time_values, pm_gps_idx,
                   timestamps, weather_idx, seg_idx, result, raised>>

\* lines 138-147: value arrays, snapshot indices and snapshot timestamps
Segment ==
    /\ pc = "indexed"
    /\ pm_values' = PmColumn(pm_gps)
    /\ gps_values' = GpsColumn(pm_gps)
    /\ weather_values' = NoneOpt
    /\ time_values' = NoneOpt
    /\ pm_gps_idx' = comp_snapshot_indices(IndexValues(pm_gps), snapshot_minutes)
    /\ timestamps' = comp_snapshot_timestamps(pm_gps_idx', IndexValues(pm_gps))
    /\ seg_idx' = pm_gps_idx'
    /\ pc' = "segmented"
    /\ UNCHANGED <<pm_gps, args, previous, weather_idx, result, raised>>

\* lines 149-151: weather values and the nearest weather reading of each snapshot
MatchWeather ==
    /\ pc = "segmented"
    /\ weather.given
    /\ weather_values' = Some(WeatherRows(weather))
    /\ LET r == find_nearest(weather.index, timestamps)
       IN  IF r.ok
           THEN /\ weather_idx' = r.val
                /\ pc' = "matched"
                /\ raised' = raised
           ELSE /\ weather_idx' = weather_idx
                /\ pc' = "failed"
                /\ raised' = "IndexError"
    /\ UNCHANGED <<pm_gps, args, previous, pm_values, gps_values, time_values, pm_gps_idx,
                   timestamps, seg_idx, result>>

\* lines 153-154, 184-194: remove_snapshots_without_weather
RemoveSnapshotsWithoutWeather ==
    /\ pc = "matched"
    /\ LET mask == weather_available_mask(weather.index, weather_idx, timestamps,
                                          minutes_to_weather)
       IN  IF mask.ok
           THEN /\ LET r == remove_snapshots_without_weather(
                                 pm_gps_idx, timestamps, weather_idx, mask.val)
                   IN  /\ pm_gps_idx' = r.pm_gps_idx
                       /\ timestamps' = r.timestamps
                       /\ weather_idx' = r.weather_idx
                /\ pc' = "gated"
                /\ raised' = raised
           ELSE /\ UNCHANGED <<pm_gps_idx, timestamps, weather_idx>>
                /\ pc' = "failed"
                /\ raised' = "IndexError"
    /\ UNCHANGED <<pm_gps, args, previous, pm_values, gps_values, weather_values, time_values,
                   seg_idx, result>>

\* The weather block of __init__ is over (or was skipped).
\* Variant: the calendar and batch stages do not wait for the weather stages.
AfterWeather_without_gating == pc = "gated" \/ pc = "segmented"

AfterWeather == pc = "gated" \/ (pc = "segmented" /\ ~weather.given)

\* Variant: the calendar features may be computed right after the matching,
\* from the snapshots as they are before the gating.
MapTimestampsToFeatures_before_gating ==
    /\ AfterWeather \/ pc = "matched"
    /\ datetime_to_vec.given
    /\ IF \A k \in 1..Len(timestamps) : CalendarOk(timestamps[k])
       THEN /\ time_values' = Some(map_timestamps_to_features(timestamps))
            /\ pc' = "featured"
            /\ raised' = raised
       ELSE /\ time_values' = time_values
            /\ pc' = "failed"
            /\ raised' = "IndexError"
    /\ UNCHANGED <<pm_gps, args, previous, pm_values, gps_values, weather_values, pm_gps_idx,
                   timestamps, weather_idx, seg_idx, result>>

\* lines 156-159: calendar features of the remaining snapshots
MapTimestampsToFeatures ==
    /\ AfterWeather
    /\ datetime_to_vec.given
    /\ IF \A k \in 1..Len(timestamps) : CalendarOk(timestamps[k])
       THEN /\ time_values' = Some(map_timestamps_to_features(timestamps))
            /\ pc' = "featured"
            /\ raised' = raised
       ELSE /\ time_values' = time_values
            /\ pc' = "failed"
            /\ raised' = "IndexError"
    /\ UNCHANGED <<pm_gps, args, previous, pm_values, gps_values, weather_values, pm_gps_idx,
                   timestamps, weather_idx, seg_idx, result>>

\* lines 162, 212-222: split every parallel array at the batch boundaries
SplitToBatches ==
    /\ pc = "featured" \/ (AfterWeather /\ ~datetime_to_vec.given)
    /\ LET batch_splits == split_snapshot_indices_to_batches(
                               IndexValues(pm_gps), pm_gps_idx, snapshot_minutes)
       IN  /\ pm_gps_idx' = np_split(pm_gps_idx, batch_splits)
           /\ timestamps' = np_split(timestamps, batch_splits)
           /\ time_values' = IF time_values.some
                             THEN Some(np_split(time_values.val, batch_splits))
                             ELSE time_values
           /\ weather_idx' = IF weather_values.some
                             THEN np_split(weather_idx, batch_splits)
                             ELSE weather_idx
    /\ pc' = "split"
    /\ UNCHANGED <<pm_gps, args, previous, pm_values, gps_values, weather_values, seg_idx,
                   result, raised>>

\* lines 223, 196-206: remove_unit_batches
RemoveUnitBatches ==
    /\ pc = "split"
    /\ LET r == remove_unit_batches(pm_gps_idx, timestamps, time_values,
                                    weather_values, weather_idx)
       IN  /\ pm_gps_idx' = r.pm_gps_idx
           /\ timestamps' = r.timestamps
           /\ time_values' = r.time_values
           /\ weather_idx' = r.weather_idx
    /\ unit_idx' = find_indices_of_unit_batches(pm_gps_idx)
    /\ pc' = "ready"
    /\ UNCHANGED <<pm_gps, args, previous, pm_values, gps_values, weather_values, seg_idx,
                   key, ret, raised>>

(***************************************************************************)
(* Dataset.__len__ and Dataset.__getitem__ with an integer key.            *)
(***************************************************************************)
length == Len(timestamps)

\* Variant: 'pm' is sliced out of gps_values.
batch_kwargs_pm_from_gps(k) ==
    [timestamps |-> PyAt(timestamps, k),
     pm |-> split_by_double_index(PyAt(pm_gps_idx, k), gps_values),
     gps |-> split_by_double_index(PyAt(pm_gps_idx, k), gps_values),
     weather |-> IF weather_values.some
                 THEN Some([j \in 1..Len(PyAt(weather_idx, k)) |->
                              PyAt(weather_values.val, PyAt(weather_idx, k)[j])])
                 ELSE NoneOpt,
     time |-> IF time_values.some THEN Some(PyAt(time_values.val, k)) ELSE NoneOpt]

\* lines 233-242: the keyword arguments the Batch is built from
batch_kwargs(k) ==
    [timestamps |-> PyAt(timestamps, k),
     pm |-> split_by_double_index(PyAt(pm_gps_idx, k), pm_values),
     gps |-> split_by_double_index(PyAt(pm_gps_idx, k), gps_values),
     weather |-> IF weather_values.some
                 THEN Some([j \in 1..Len(PyAt(weather_idx, k)) |->
                              PyAt(weather_values.val, PyAt(weather_idx, k)[j])])
                 ELSE NoneOpt,
     time |-> IF time_values.some THEN Some(PyAt(time_values.val, k)) ELSE NoneOpt]

\* Variant: a returned batch is taken out of the Dataset.
GetItem_consuming(k) ==
    /\ pc = "ready"
    /\ key' = Some(k)
    /\ IF PyInRange(timestamps, k)
       THEN /\ ret' = Some(batch_kwargs(k))
            /\ raised' = ""
            /\ timestamps' = delete_indices(timestamps, <<k % Len(timestamps)>>)
            /\ pm_gps_idx' = delete_indices(pm_gps_idx, <<k % Len(timestamps)>>)
       ELSE /\ ret' = NoneOpt
            /\ raised' = "IndexError"
            /\ UNCHANGED <<timestamps, pm_gps_idx>>
    /\ UNCHANGED <<pm_gps, args, previous, pc, pm_values, gps_values, weather_values, time_values,
                   weather_idx, seg_idx, unit_idx>>

\* self.timestamps[key] on a list raises IndexError outside -len..len-1.
GetItem(k) ==
    /\ pc = "ready"
    /\ key' = Some(k)
    /\ IF PyInRange(timestamps, k)
       THEN /\ ret' = Some(batch_kwargs(k))
            /\ raised' = ""
       ELSE /\ ret' = NoneOpt
            /\ raised' = "IndexError"
    /\ UNCHANGED <<pm_gps, args, previous, pc, pm_values, gps_values, weather_values, time_values,
                   pm_gps_idx, timestamps, weather_idx, seg_idx, unit_idx>>

\* lines 246-247: __len__
LenKey == [some |-> TRUE, fn |-> "len"]
LenResult(n) == [some |-> TRUE, int |-> n]
Length ==
    /\ pc = "ready"
    /\ key' = LenKey
    /\ ret' = LenResult(length)
    /\ raised' = ""
    /\ UNCHANGED <<pm_gps, args, previous, pc, pm_values, gps_values, weather_values, time_values,
                   pm_gps_idx, timestamps, weather_idx, seg_idx, unit_idx>>

(***************************************************************************)
(* Dataset.__getitem__ with a slice key (lines 243-244):                   *)
(*     return [self[k] for k in range of key.indices(len(self))]           *)
(***************************************************************************)
Max(a, b) == IF a >= b THEN a ELSE b
Min(a, b) == IF a <= b THEN a ELSE b

\* slice(start, stop, step); each field is None or an integer.
SliceEnds == {NoneOpt} \cup {Some(v) : v \in {-(MaxKey + 1), -1, 0, 1, MaxKey + 1}}
SliceSteps == {NoneOpt} \cup {Some(v) : v \in {-2, -1, 0, 1, 2}}
Slices == [start : SliceEnds, stop : SliceEnds, step : SliceSteps]

SliceKey(sl) == [some |-> TRUE, slice |-> sl]
SliceResult(batches) == [some |-> TRUE, list |-> batches]

\* Variant: the bounds are made relative to the end but never clamped.
slice_indices_unclamped(sl, n) ==
    LET step == IF sl.step.some THEN sl.step.val ELSE 1
        adjust(e, default) ==
            IF ~e.some THEN default
            ELSE IF e.val < 0 THEN e.val + n ELSE e.val
    IN  [start |-> adjust(sl.start, IF step < 0 THEN n - 1 ELSE 0),
         stop |-> adjust(sl.stop, IF step < 0 THEN -1 ELSE n),
         step |-> step]

\* key.indices(len(self)) for a non-zero step
slice_indices(sl, n) ==
    LET step == IF sl.step.some THEN sl.step.val ELSE 1
        lower == IF step < 0 THEN -1 ELSE 0
        upper == IF step < 0 THEN n - 1 ELSE n
        adjust(e, default) ==
            IF ~e.some THEN default
            ELSE IF e.val < 0 THEN Max(e.val + n, lower) ELSE Min(e.val, upper)
    IN  [start |-> adjust(sl.start, IF step < 0 THEN upper ELSE lower),
         stop |-> adjust(sl.stop, IF step < 0 THEN lower ELSE upper),
         step |-> step]

\* range(start, stop, step) for a non-zero step
py_range(start, stop, step) ==
    LET n == IF step > 0
             THEN Max(0, (stop - start + step - 1) \div step)
             ELSE Max(0, (start - stop - step - 1) \div (-step))
    IN  [m \in 1..n |-> start + (m - 1) * step]

\* the list comprehension: self[k] for each k of the range, in order
getitem_slice(sl) ==
    IF sl.step.some /\ sl.step.val = 0
    THEN [raised |-> "ValueError", val |-> <<>>]
    ELSE LET r == slice_indices(sl, length)
             ks == py_range(r.start, r.stop, r.step)
         IN  IF \A m \in 1..Len(ks) : PyInRange(timestamps, ks[m])
             THEN [raised |-> "", val |-> [m \in 1..Len(ks) |-> batch_kwargs(ks[m])]]
             ELSE [raised |-> "IndexError", val |-> <<>>]

\* The caller passes one slice per behaviour and may repeat the call.
GetSlice(sl) ==
    /\ pc = "ready"
    /\ ~key.some \/ key = SliceKey(sl)
    /\ key' = SliceKey(sl)
    /\ LET r == getitem_slice(sl)
       IN  /\ raised' = r.raised
           /\ ret' = IF r.raised = "" THEN SliceResult(r.val) ELSE NoneOpt
    /\ UNCHANGED <<pm_gps, args, previous, pc, pm_values, gps_values, weather_values, time_values,
                   pm_gps_idx, timestamps, weather_idx, seg_idx, unit_idx>>

Next ==
    \/ PrepPmGps
    \/ Segment
    \/ MatchWeather
    \/ RemoveSnapshotsWithoutWeather
    \/ MapTimestampsToFeatures
    \/ SplitToBatches
    \/ RemoveUnitBatches
    \/ \E k \in Keys : GetItem(k)

Spec == Init /\ [][Next]_vars

(***************************************************************************)
(* Construction from the long tables with a weather table of two rows and  *)
(* a tolerance of one minute.                                              *)
(***************************************************************************)
InitGating ==
    /\ pm_gps \in LongTables
    /\ snapshot_minutes \in SnapshotMinutes
    /\ weather \in {w \in Weathers : w.given /\ Len(w.index) = 2}
    /\ minutes_to_weather = 1
    /\ datetime_to_vec \in {[given |-> FALSE], [given |-> TRUE]}
    /\ pc = "raw"
    /\ pm_values = <<>>
    /\ gps_values = <<>>
    /\ weather_values = NoneOpt
    /\ time_values = NoneOpt
    /\ pm_gps_idx = <<>>
    /\ timestamps = <<>>
    /\ weather_idx = <<>>
    /\ seg_idx = <<>>
    /\ unit_idx = <<>>
    /\ key = NoneOpt
    /\ ret = NoneOpt
    /\ raised = ""
    /\ previous = NoneOpt

SpecGating == InitGating /\ [][Next]_vars

(***************************************************************************)
(* average_duplicates applied to a table on its own.                       *)
(***************************************************************************)
\* Tables with an ascending index whose rows are taken at either of two
\* places, in any order.
AverageTables ==
    UNION {{[i \in 1..n |-> [t |-> s[i] * Minute, pos |-> q[i], pm |-> i * Minute,
                              key |-> NoKey]]
              : s \in Ascending(n, MaxTime), q \in [1..n -> {1, 2}]}
           : n \in 0..MaxReadings}

TableResult(df) == [some |-> TRUE, table |-> df]

InitAverage ==
    /\ pm_gps \in AverageTables
    /\ snapshot_minutes = 1
    /\ weather = [given |-> FALSE, index |-> <<>>]
    /\ minutes_to_weather = NoneInt
    /\ datetime_to_vec = [given |-> FALSE]
    /\ pc = "table"
    /\ pm_values = <<>>
    /\ gps_values = <<>>
    /\ weather_values = NoneOpt
    /\ time_values = NoneOpt
    /\ pm_gps_idx = <<>>
    /\ timestamps = <<>>
    /\ weather_idx = <<>>
    /\ seg_idx = <<>>
    /\ unit_idx = <<>>
    /\ key = NoneOpt
    /\ ret = NoneOpt
    /\ raised = ""
    /\ previous = NoneOpt

\* lines 69-77: the call average_duplicates(df, columns) and its result
AverageDuplicates ==
    /\ pc = "table"
    /\ pm_gps' = average_duplicates(pm_gps).df
    /\ ret' = TableResult(average_duplicates(pm_gps).ret)
    /\ pc' = "averaged"
    /\ UNCHANGED <<args, previous, pm_values, gps_values, weather_values, time_values, pm_gps_idx,
                   timestamps, weather_idx, seg_idx, unit_idx, key, raised>>

\* average_duplicates called on the table the first call returned
AverageAgain ==
    /\ pc = "averaged"
    /\ key' = ret
    /\ ret' = TableResult(average_duplicates(ret.table).ret)
    /\ pc' = "reaveraged"
    /\ UNCHANGED <<pm_gps, args, previous, pm_values, gps_values, weather_values, time_values,
                   pm_gps_idx, timestamps, weather_idx, seg_idx, unit_idx, raised>>

NextAverage ==
    \/ AverageDuplicates
    \/ AverageAgain

SpecAverage == InitAverage /\ [][NextAverage]_vars

(***************************************************************************)
(* A second Dataset built from the table object a first construction has   *)
(* prepared in place, with the same arguments (as in the example cell,     *)
(* lines 275-293, which passes one pm_gps to several constructors).        *)
(***************************************************************************)
Built(d) == [some |-> TRUE, dataset |-> d]

\* The first Dataset is complete; Dataset(pm_gps, ...) is called again.
Reconstruct ==
    /\ pc = "ready"
    /\ ~previous.some
    /\ previous' = Built([pm_values |-> pm_values, gps_values |-> gps_values,
                          weather_values |-> weather_values, time_values |-> time_values,
                          pm_gps_idx |-> pm_gps_idx, timestamps |-> timestamps,
                          weather_idx |-> weather_idx, seg_idx |-> seg_idx,
                          length |-> length])
    /\ pc' = "raw"
    /\ pm_values' = <<>>
    /\ gps_values' = <<>>
    /\ weather_values' = NoneOpt
    /\ time_values' = NoneOpt
    /\ pm_gps_idx' = <<>>
    /\ timestamps' = <<>>
    /\ weather_idx' = <<>>
    /\ seg_idx' = <<>>
    /\ unit_idx' = <<>>
    /\ key' = NoneOpt
    /\ ret' = NoneOpt
    /\ raised' = ""
    /\ UNCHANGED <<pm_gps, args>>

\* With a weather table the tolerance is given.
InitTwice ==
    /\ Init
    /\ weather.given => minutes_to_weather # NoneInt

NextTwice ==
    \/ PrepPmGps
    \/ Segment
    \/ MatchWeather
    \/ RemoveSnapshotsWithoutWeather
    \/ MapTimestampsToFeatures
    \/ SplitToBatches
    \/ RemoveUnitBatches
    \/ Reconstruct

SpecTwice == InitTwice /\ [][NextTwice]_vars

(***************************************************************************)
(* The query interface on Datasets built without a weather table from      *)
(* tables whose rows share one position.                                   *)
(***************************************************************************)
InitSlice ==
    /\ Init
    /\ ~weather.given
    /\ \A i \in 1..Len(pm_gps) : pm_gps[i].pos = 1

NextSlice ==
    \/ PrepPmGps
    \/ Segment
    \/ MapTimestampsToFeatures
    \/ SplitToBatches
    \/ RemoveUnitBatches
    \/ \E k \in Keys : GetItem(k)
    \/ \E sl \in Slices : GetSlice(sl)
    \/ Length

SpecSlice == InitSlice /\ [][NextSlice]_vars

(***************************************************************************)
(* Properties.                                                             *)
(***************************************************************************)
RECURSIVE Flatten(_)
Flatten(batches) ==
    IF Len(batches) = 0 THEN <<>> ELSE Head(batches) \o Flatten(Tail(batches))

\* The per-batch lists exist from the split on.
Batched == pc \in {"split", "ready"}

index_values == IndexValues(pm_gps)
num_readings == Len(pm_gps)
Threshold == snapshot_minutes * Minute

\* C1: after construction every retained batch, i.e. every batch at a position
\* 0 <= i < length(), contains at least two snapshots.
C1_RetainedBatchesHaveTwoSnapshots ==
    pc = "ready" =>
        \A i \in 1..length : Len(pm_gps_idx[i]) >= 2 /\ Len(timestamps[i]) >= 2

C1_Witness ==
    /\ pc = "ready"
    /\ length >= 1
    /\ weather.given
    /\ datetime_to_vec.given
    /\ Len(Flatten(pm_gps_idx)) < Len(seg_idx)

\* The time between the last reading of snapshot a and the first reading of
\* snapshot b, both non-empty ranges of readings.
ReadingGap(a, b) == index_values[b[1] + 1] - index_values[a[2]]
NonEmpty(a) == 0 <= a[1] /\ a[1] < a[2] /\ a[2] <= num_readings

\* C2: after construction, inside every retained batch the gap between the last
\* reading of a snapshot and the first reading of the next snapshot of the batch
\* does not exceed the batch threshold (snapshot_minutes).
C2_IntraBatchGapsWithinThreshold ==
    pc = "ready" =>
        \A i \in 1..length : \A j \in 1..(Len(pm_gps_idx[i]) - 1) :
            LET a == pm_gps_idx[i][j]
                b == pm_gps_idx[i][j + 1]
            IN  (NonEmpty(a) /\ NonEmpty(b)) => ReadingGap(a, b) <= Threshold

\* 1-based number of the batch that holds position p of the flattened list.
RECURSIVE BatchOf(_, _)
BatchOf(batches, p) ==
    IF p <= Len(Head(batches)) THEN 1
    ELSE 1 + BatchOf(Tail(batches), p - Len(Head(batches)))

\* C3: split_to_batches inserts a batch boundary exactly at the large gaps: two
\* snapshots adjacent in the post-gating sequence are placed in different
\* batches if and only if the gap between the end of the earlier and the start
\* of the later exceeds the threshold.
C3_BoundaryExactlyAtLargeGaps ==
    pc = "split" =>
        LET flat == Flatten(pm_gps_idx)
        IN  \A p \in 1..(Len(flat) - 1) :
                (NonEmpty(flat[p]) /\ NonEmpty(flat[p + 1])) =>
                    ((BatchOf(pm_gps_idx, p) # BatchOf(pm_gps_idx, p + 1))
                        <=> (ReadingGap(flat[p], flat[p + 1]) > Threshold))

\* The gap between the readings at 0-based positions i-1 and i.
GapBefore(i) == index_values[i + 1] - index_values[i]

\* The segmentation has run: seg_idx holds the rows comp_snapshot_indices
\* returned for the table's index.
Segmented == pc \notin {"raw", "indexed"}

\* C4: every row (s,e) returned by comp_snapshot_indices has all gaps between
\* consecutive timestamps at positions s..e-1 below snapshot_minutes, a gap
\* >= snapshot_minutes between positions s-1 and s (when s > 0) and a gap
\* >= snapshot_minutes between positions e-1 and e (when e < n).
C4_SegmentationCorrect ==
    Segmented =>
        \A k \in 1..Len(seg_idx) :
            LET s == seg_idx[k][1]
                e == seg_idx[k][2]
            IN  /\ \A i \in (s + 1)..(e - 1) : GapBefore(i) < Threshold
                /\ (s > 0) => GapBefore(s) >= Threshold
                /\ (0 < e /\ e < num_readings) => GapBefore(e) >= Threshold

\* C5: for a non-empty timestamp sequence the rows of comp_snapshot_indices are
\* non-negative, have strictly increasing starts, do not overlap and partition
\* [0, n): the first start is 0, the last end is n, each end is the next start.
C5_RowsPartitionReadings ==
    (Segmented /\ num_readings > 0) =>
        /\ \A k \in 1..Len(seg_idx) : seg_idx[k][1] >= 0 /\ seg_idx[k][2] >= 0
        /\ seg_idx[1][1] = 0
        /\ seg_idx[Len(seg_idx)][2] = num_readings
        /\ \A k \in 1..(Len(seg_idx) - 1) :
              /\ seg_idx[k][2] = seg_idx[k + 1][1]
              /\ seg_idx[k][1] < seg_idx[k + 1][1]

\* The positions of arr that pass the test, in order (arr and the test are
\* indexed 1..Len(arr)).
KeepWhere(arr, Test(_)) ==
    LET pos == SelectSeq([i \in 1..Len(arr) |-> i], Test)
    IN  [k \in 1..Len(pos) |-> arr[pos[k]]]

\* The readings of snapshot row a (0-based, end exclusive), a within the table.
ReadingsOf(arr, a) == SubSeq(arr, a[1] + 1, a[2])

\* C6: with a weather table, after the gating stage (and after the calendar
\* stage when configured) the snapshot-index, timestamp, weather_idx and
\* calendar-feature arrays have the same length and position k of each refers
\* to the same snapshot: the timestamp is that of the snapshot's readings, the
\* weather index is the match of that timestamp, the features encode it.
C6_ArraysAlignedAfterGating ==
    (weather.given /\ pc \in {"gated", "featured"}) =>
        /\ Len(timestamps) = Len(pm_gps_idx)
        /\ Len(weather_idx) = Len(pm_gps_idx)
        /\ (pc = "featured") => time_values.some
        /\ time_values.some => Len(time_values.val) = Len(pm_gps_idx)
        /\ \A k \in 1..Len(pm_gps_idx) :
              /\ timestamps[k] = MeanTimestamp(ReadingsOf(index_values, pm_gps_idx[k]))
              /\ weather_idx[k] = find_nearest_one(weather.index, timestamps[k])
              /\ time_values.some => time_values.val[k] = timestamp_to_vec(timestamps[k])

C6_Witness ==
    /\ pc = "featured"
    /\ weather.given
    /\ Len(pm_gps_idx) >= 2
    /\ Len(pm_gps_idx) < Len(seg_idx)

\* The per-batch lists agree in the number of batches and in every batch's size.
SameShape(a, b) == Len(a) = Len(b) /\ \A i \in 1..Len(a) : Len(a[i]) = Len(b[i])

PerBatchListsAligned ==
    /\ SameShape(timestamps, pm_gps_idx)
    /\ weather.given => SameShape(weather_idx, pm_gps_idx)
    /\ datetime_to_vec.given => (time_values.some /\ SameShape(time_values.val, pm_gps_idx))

\* C7: at the end of construction the per-batch lists of snapshot indices,
\* timestamps, weather indices (with weather) and calendar features (when
\* configured) hold the same number of batches, length(), and the same number
\* of snapshots at every batch position; unit-batch pruning removes the same
\* batch positions, those with at most one snapshot after the split, from each.
C7_PerBatchListsPrunedTogether ==
    /\ [](pc = "ready" => (PerBatchListsAligned /\ length = Len(pm_gps_idx)))
    /\ [][(pc = "split" /\ pc' = "ready") =>
            LET Kept(i) == Len(pm_gps_idx[i]) >= 2
            IN  /\ pm_gps_idx' = KeepWhere(pm_gps_idx, Kept)
                /\ timestamps' = KeepWhere(timestamps, Kept)
                /\ weather.given => weather_idx' = KeepWhere(weather_idx, Kept)
                /\ datetime_to_vec.given =>
                       time_values'.val = KeepWhere(time_values.val, Kept)]_vars

C7_Witness ==
    /\ pc = "ready"
    /\ length >= 1
    /\ Len(unit_idx) >= 1
    /\ weather.given
    /\ datetime_to_vec.given

\* The weather reading assigned to a snapshot lies within the tolerance.
WithinTolerance(widx, ts) ==
    /\ minutes_to_weather # NoneInt
    /\ Abs(weather.index[widx + 1] - ts) <= minutes_to_weather * Minute

\* Example 2 of the specification, in minutes after 00:00.
Example2Weather == <<600 * Minute, 630 * Minute>>
Example2Snapshot == <<620 * Minute>>
Example2Match == find_nearest(Example2Weather, Example2Snapshot).val
Example2Mask(tol) ==
    weather_available_mask(Example2Weather, Example2Match, Example2Snapshot, tol).val

\* C8: with weather, a snapshot survives gating if and only if
\* |weather_timestamp[weather_idx] - snapshot_timestamp| <= minutes_to_weather
\* (inclusive), so every snapshot of every retained batch has its weather
\* reading within the tolerance; weather [10:00, 10:30] and snapshot 10:20 match
\* 10:30, accepted at tolerance 15 and removed at tolerance 5.
C8_GatingKeepsExactlyWithinTolerance ==
    /\ [][(pc = "matched" /\ pc' = "gated") =>
            LET Kept(k) == WithinTolerance(weather_idx[k], timestamps[k])
            IN  /\ pm_gps_idx' = KeepWhere(pm_gps_idx, Kept)
                /\ timestamps' = KeepWhere(timestamps, Kept)
                /\ weather_idx' = KeepWhere(weather_idx, Kept)]_vars
    /\ []((pc = "ready" /\ weather.given) =>
            \A i \in 1..length : \A j \in 1..Len(timestamps[i]) :
                WithinTolerance(weather_idx[i][j], timestamps[i][j]))
    /\ [](/\ Example2Match = <<1>>
          /\ Example2Mask(15) = <<TRUE>>
          /\ Example2Mask(5) = <<FALSE>>)

C8_Witness ==
    /\ pc = "ready"
    /\ weather.given
    /\ length >= 1
    /\ Len(Flatten(pm_gps_idx)) + Len(unit_idx) < Len(seg_idx)
    /\ \E i \in 1..length : \E j \in 1..Len(timestamps[i]) :
          Abs(weather.index[weather_idx[i][j] + 1] - timestamps[i][j])
              = minutes_to_weather * Minute

\* No two rows share the key (timestamp, position).
NoDuplicateKeys(ts, gps) ==
    \A i, j \in 1..Len(ts) : (ts[i] = ts[j] /\ gps[i] = gps[j]) => i = j

\* C9: construction merges readings that share the floored timestamp and the
\* position into one row holding their mean, before segmentation: the caller's
\* table is left deduplicated, and the backing arrays and the timestamp
\* sequence the snapshot boundaries are computed from hold at most one reading
\* per (floored timestamp, position) key.
C9_DeduplicatedBeforeSegmentation ==
    /\ pc # "raw" => NoDuplicateKeys(index_values, GpsColumn(pm_gps))
    /\ Segmented =>
          /\ Len(pm_values) = Len(gps_values)
          /\ NoDuplicateKeys(index_values, gps_values)
          /\ pm_values = PmColumn(average_duplicates(pm_gps).ret)

\* The Batch returned by the last call is the batch at 1-based position b.
ReturnedBatchIs(b) ==
    /\ ret.some
    /\ raised = ""
    /\ ret.val.timestamps = timestamps[b]
    /\ Len(ret.val.pm) = Len(pm_gps_idx[b])
    /\ Len(ret.val.gps) = Len(pm_gps_idx[b])
    /\ \A j \in 1..Len(pm_gps_idx[b]) :
          /\ ret.val.pm[j] = ReadingsOf(pm_values, pm_gps_idx[b][j])
          /\ ret.val.gps[j] = ReadingsOf(gps_values, pm_gps_idx[b][j])
    /\ ret.val.weather.some = weather.given
    /\ weather.given =>
          ret.val.weather.val = [j \in 1..Len(weather_idx[b]) |->
                                    WeatherRows(weather)[weather_idx[b][j] + 1]]
    /\ ret.val.time.some = datetime_to_vec.given
    /\ datetime_to_vec.given => ret.val.time.val = time_values.val[b]

FailedWithIndexError == raised = "IndexError" /\ ~ret.some

\* C10 as stated: get(i) returns the i-th retained batch when 0 <= i < length()
\* and fails with an IndexError for every other integer i, never returning null
\* or some other batch.
C10_OutOfRangeAlwaysFails ==
    (pc = "ready" /\ key.some) =>
        IF 0 <= key.val /\ key.val < length
        THEN ReturnedBatchIs(key.val + 1)
        ELSE FailedWithIndexError

\* C10, amended: get(i) returns the i-th retained batch when 0 <= i < length()
\* and, counting from the end as Python sequences do, the (length()+i)-th batch
\* when -length() <= i < 0; for every other integer i it fails with an
\* IndexError and never returns null or some other batch.
C10_GetItemFollowsSequenceIndexing ==
    (pc = "ready" /\ key.some) =>
        IF 0 <= key.val /\ key.val < length
        THEN ReturnedBatchIs(key.val + 1)
        ELSE IF -length <= key.val /\ key.val < 0
             THEN ReturnedBatchIs(length + key.val + 1)
             ELSE FailedWithIndexError

C10_Witness ==
    /\ pc = "ready"
    /\ length >= 2
    /\ key = Some(-1)
    /\ ret.some

(***************************************************************************)
(* Slice keys.                                                             *)
(***************************************************************************)
IsSliceCall == pc = "ready" /\ key.some /\ "slice" \in DOMAIN key

\* Standard slice semantics on a sequence of n items: the bounds i and j are
\* taken relative to the end when negative and reduced to the sequence; the
\* selected positions are i, i+k, i+2k, ... up to but excluding j.
StandardSlicePositions(sl, n) ==
    LET k == IF sl.step.some THEN sl.step.val ELSE 1
        rel(e) == IF e.val < 0 THEN e.val + n ELSE e.val
        i == IF k > 0
             THEN (IF ~sl.start.some THEN 0 ELSE Min(Max(rel(sl.start), 0), n))
             ELSE (IF ~sl.start.some THEN n - 1 ELSE Min(Max(rel(sl.start), -1), n - 1))
        j == IF k > 0
             THEN (IF ~sl.stop.some THEN n ELSE Min(Max(rel(sl.stop), 0), n))
             ELSE (IF ~sl.stop.some THEN -1 ELSE Min(Max(rel(sl.stop), -1), n - 1))
        chosen == {x \in 0..(n - 1) :
                     /\ \E m \in 0..n : x = i + m * k
                     /\ IF k > 0 THEN x < j ELSE x > j}
        before(x, y) == IF k > 0 THEN x < y ELSE x > y
    IN  [m \in 1..Cardinality(chosen) |->
           CHOOSE x \in chosen : Cardinality({y \in chosen : before(y, x)}) = m - 1]

\* C11: get(slice) returns the list [get(k) : k in the positions standard slice
\* semantics select among the length() batches], in that order; it does not
\* fail for bounds beyond the number of batches, the list is empty when the
\* range is empty, and the only failure is the zero step standard slice
\* semantics reject.
C11_SliceIsListOfGets ==
    IsSliceCall =>
        LET sl == key.slice
            ks == StandardSlicePositions(sl, length)
        IN  IF sl.step.some /\ sl.step.val = 0
            THEN raised = "ValueError" /\ ~ret.some
            ELSE /\ raised = ""
                 /\ ret = SliceResult([m \in 1..Len(ks) |-> batch_kwargs(ks[m])])

\* a reversed slice whose start lies beyond the two batches of the Dataset
C11_Witness ==
    /\ IsSliceCall
    /\ length = 2
    /\ key.slice = [start |-> Some(MaxKey + 1), stop |-> NoneOpt, step |-> Some(-1)]
    /\ ret.some
    /\ Len(ret.list) = 2
    /\ ret.list[1] = batch_kwargs(1)
    /\ ret.list[2] = batch_kwargs(0)

(***************************************************************************)
(* Optional inputs and edge cases of the constructor.                      *)
(***************************************************************************)
\* C12: constructing from an empty primary table never fails: the segmenter
\* returns the single empty snapshot (0, 0), the batch stage prunes it, and
\* the constructed Dataset has length() = 0.
C12_EmptyTableConstructs ==
    Len(pm_gps) = 0 =>
        /\ pc # "failed"
        /\ pc \in {"segmented", "matched", "gated", "featured"} => seg_idx = <<<<0, 0>>>>
        /\ pc = "ready" => length = 0 /\ unit_idx = <<0>>

\* C13: a weather table supplied without minutes_to_weather is rejected when
\* construction starts, with a configuration error: the constructor never
\* gets as far as gating the snapshots, never fails with another error, and
\* never yields a constructed Dataset.
C13_MissingToleranceRejected ==
    (weather.given /\ minutes_to_weather = NoneInt) =>
        /\ pc \notin {"matched", "gated", "featured", "split", "ready"}
        /\ pc = "failed" => raised = "ConfigurationError"

\* C14: without a weather table the matching and gating stages are skipped (no
\* snapshot is removed between segmentation and batch splitting),
\* weather_values stays None and every returned Batch has weather = None;
\* without a calendar function time_values stays None and every returned Batch
\* has time = None; and each optional stage runs exactly when its own input is
\* supplied, whatever the other one is.
C14_OptionalStagesIndependent ==
    /\ ~weather.given =>
          /\ pc \notin {"matched", "gated"}
          /\ ~weather_values.some
          /\ pc \in {"segmented", "featured"} => pm_gps_idx = seg_idx
          /\ pc = "split" => Flatten(pm_gps_idx) = seg_idx
          /\ ret.some => ~ret.val.weather.some
    /\ ~datetime_to_vec.given =>
          /\ pc # "featured"
          /\ ~time_values.some
          /\ ret.some => ~ret.val.time.some
    /\ weather.given =>
          /\ pc \in {"featured", "split", "ready"} => weather_values.some
          /\ ret.some => ret.val.weather.some
    /\ datetime_to_vec.given =>
          /\ pc \in {"split", "ready"} => time_values.some
          /\ ret.some => ret.val.time.some

\* a Batch returned by a Dataset built with a calendar function and no weather
C14_Witness ==
    /\ pc = "ready"
    /\ ~weather.given
    /\ datetime_to_vec.given
    /\ Len(seg_idx) >= 2
    /\ ret.some
    /\ ~ret.val.weather.some
    /\ ret.val.time.some

(***************************************************************************)
(* The constructed Dataset is read-only.                                   *)
(***************************************************************************)
backing == <<pm_gps, pc, pm_values, gps_values, weather_values, time_values, pm_gps_idx,
             timestamps, weather_idx>>

\* C15: once constructed, no call of get(i), get(slice) or length(), failing
\* calls included, changes a backing array or an index structure, and a call
\* repeated with the same argument returns (or raises) the same as before.
C15_QueriesLeaveDatasetUnchanged ==
    [][pc = "ready" =>
          /\ UNCHANGED backing
          /\ (key.some /\ key' = key) => (ret' = ret /\ raised' = raised)]_vars

\* a failing get(i) was made on a Dataset that holds a batch
C15_Witness ==
    /\ pc = "ready"
    /\ length = 1
    /\ key = Some(MaxKey)
    /\ raised = "IndexError"
    /\ ~ret.some

(***************************************************************************)
(* Shape of a returned Batch.                                              *)
(***************************************************************************)
\* C16: for every retained batch i, get(i).pm and get(i).gps hold one array per
\* snapshot of the batch, the j-th being the readings start_j..end_j-1 of
\* pm_values (resp. gps_values) for the j-th index row of the batch; and
\* timestamps, weather (when configured) and time (when configured) have as
\* many entries as pm.
C16_BatchArraysFollowIndex ==
    (pc = "ready" /\ ret.some) =>
        LET rows == PyAt(pm_gps_idx, key.val)
            b == ret.val
        IN  /\ Len(b.pm) = Len(rows)
            /\ Len(b.gps) = Len(rows)
            /\ \A j \in 1..Len(rows) :
                  /\ b.pm[j] = ReadingsOf(pm_values, rows[j])
                  /\ b.gps[j] = ReadingsOf(gps_values, rows[j])
            /\ Len(b.timestamps) = Len(b.pm)
            /\ weather.given => b.weather.some /\ Len(b.weather.val) = Len(b.pm)
            /\ datetime_to_vec.given => b.time.some /\ Len(b.time.val) = Len(b.pm)

\* a Batch with weather and calendar features whose snapshots differ in size
C16_Witness ==
    /\ pc = "ready"
    /\ ret.some
    /\ weather.given
    /\ datetime_to_vec.given
    /\ Len(ret.val.pm) >= 2
    /\ \E j \in 1..Len(ret.val.pm) : Len(ret.val.pm[j]) >= 2
    /\ \E j \in 1..Len(ret.val.pm) : Len(ret.val.pm[j]) = 1

(***************************************************************************)
(* Gating before splitting and pruning.                                    *)
(***************************************************************************)
\* The timestamps of all snapshots of the segmentation and their weather
\* matches, as computed before the gating.
SegTimestamps == comp_snapshot_timestamps(seg_idx, index_values)
SegMatch == find_nearest(weather.index, SegTimestamps).val
SurvivesGating(j) == WithinTolerance(SegMatch[j], SegTimestamps[j])

\* Snapshots j and j+1 of the segmentation are not temporally contiguous.
RunBreak(j) == ReadingGap(seg_idx[j], seg_idx[j + 1]) > Threshold
RunOf(j) == 1 + Cardinality({i \in 1..(j - 1) : RunBreak(i)})
RunMembers(r) == {j \in 1..Len(seg_idx) : RunOf(j) = r}

\* Gating leaves exactly one snapshot of run r, which had two or more, and
\* removes no snapshot of another run.
RunCollapses(r) ==
    /\ Cardinality(RunMembers(r)) >= 2
    /\ Cardinality({j \in RunMembers(r) : SurvivesGating(j)}) = 1
    /\ \A j \in 1..Len(seg_idx) : j \notin RunMembers(r) => SurvivesGating(j)

\* length() of the Dataset built from the same snapshots when none is gated out
UngatedLength ==
    LET sp == split_snapshot_indices_to_batches(index_values, seg_idx, snapshot_minutes)
    IN  Len(remove_unit_batches(np_split(seg_idx, sp), np_split(SegTimestamps, sp),
                                NoneOpt, NoneOpt, <<>>).timestamps)

\* C17: weather gating takes effect before batch splitting and pruning: the
\* batches are cut from the gated snapshots, and when gating leaves a run of
\* temporally contiguous snapshots with a single snapshot, that snapshot is in
\* no retained batch and length() is one less than for the same input in which
\* the run keeps its snapshots.
C17_CollapsedRunIsPruned ==
    (weather.given /\ Batched) =>
        /\ pc = "split" => Flatten(pm_gps_idx) = KeepWhere(seg_idx, SurvivesGating)
        /\ pc = "ready" =>
              \A r \in 1..Len(seg_idx) :
                  RunCollapses(r) =>
                      /\ length = UngatedLength - 1
                      /\ \A j \in RunMembers(r) :
                            \A p \in 1..Len(Flatten(pm_gps_idx)) :
                                Flatten(pm_gps_idx)[p] # seg_idx[j]

(***************************************************************************)
(* find_nearest, as applied to the weather index and the snapshot          *)
(* timestamps (line 149).                                                  *)
(***************************************************************************)
\* The weather matching has run on a non-empty weather index.
Matched == weather.given /\ pc = "matched" /\ Len(weather.index) > 0

\* C18: for a non-empty ascending array arr and a timestamp v, find_nearest
\* returns a position i of arr at which |arr[i] - v| is minimal over all
\* positions, also when v lies before the first or after the last element.
C18_NearestIsClosest ==
    Matched =>
        \A k \in 1..Len(timestamps) :
            timestamps[k] # NaT =>
                /\ weather_idx[k] \in 0..(Len(weather.index) - 1)
                /\ \A i \in 1..Len(weather.index) :
                      Abs(weather.index[weather_idx[k] + 1] - timestamps[k])
                          <= Abs(weather.index[i] - timestamps[k])

\* Snapshot k lies strictly between the weather timestamps at the 1-based
\* positions i and i+1, at the same distance from both.
Equidistant(k, i) ==
    /\ weather.index[i] < timestamps[k]
    /\ timestamps[k] < weather.index[i + 1]
    /\ timestamps[k] - weather.index[i] = weather.index[i + 1] - timestamps[k]

\* C19 as stated: a snapshot timestamp exactly equidistant from two
\* neighbouring weather timestamps is matched to the earlier of the two.
C19_TieGoesToEarlier ==
    Matched =>
        \A k \in 1..Len(timestamps) : \A i \in 1..(Len(weather.index) - 1) :
            Equidistant(k, i) => weather_idx[k] = i - 1

\* C19: a snapshot timestamp exactly equidistant from two neighbouring weather
\* timestamps is matched to the later of the two.
C19_TieGoesToLater ==
    Matched =>
        \A k \in 1..Len(timestamps) : \A i \in 1..(Len(weather.index) - 1) :
            Equidistant(k, i) => weather_idx[k] = i

\* a snapshot at half distance between the two weather readings was matched
C19_Witness ==
    /\ Matched
    /\ Len(weather.index) = 2
    /\ \E k \in 1..Len(timestamps) : Equidistant(k, 1) /\ weather_idx[k] = 1

(***************************************************************************)
(* average_duplicates.                                                     *)
(***************************************************************************)
RowKey(r) == <<r.t, r.pos>>
RowsWithKey(df, k) == {i \in 1..Len(df) : RowKey(df[i]) = k}

RECURSIVE PmTotal(_, _)
PmTotal(df, I) ==
    IF I = {} THEN 0
    ELSE LET i == CHOOSE x \in I : TRUE IN df[i].pm + PmTotal(df, I \ {i})

\* C20: average_duplicates returns exactly one row per distinct (index
\* timestamp, position) key of its input, whose value is the arithmetic mean of
\* the input rows with that key, the rows in ascending order of the key; rows
\* with the same timestamp and different positions stay distinct.
C20_OneAveragedRowPerKey ==
    pc = "averaged" =>
        LET out == ret.table
        IN  /\ {RowKey(out[g]) : g \in 1..Len(out)} = {RowKey(pm_gps[i]) : i \in 1..Len(pm_gps)}
            /\ \A g \in 1..(Len(out) - 1) : KeyLess(RowKey(out[g]), RowKey(out[g + 1]))
            /\ \A g \in 1..Len(out) :
                  LET I == RowsWithKey(pm_gps, RowKey(out[g]))
                  IN  out[g].pm * Cardinality(I) = PmTotal(pm_gps, I)
            /\ \A i, j \in 1..Len(pm_gps) :
                  (pm_gps[i].t = pm_gps[j].t /\ pm_gps[i].pos # pm_gps[j].pos) =>
                      \E g, h \in 1..Len(out) :
                          /\ g # h
                          /\ RowKey(out[g]) = RowKey(pm_gps[i])
                          /\ RowKey(out[h]) = RowKey(pm_gps[j])

\* the input held a duplicated key, and the same timestamp at two places with
\* the later place first
C20_Witness ==
    /\ pc = "averaged"
    /\ \E i, j \in 1..Len(pm_gps) :
          i < j /\ RowKey(pm_gps[i]) = RowKey(pm_gps[j])
    /\ \E i, j \in 1..Len(pm_gps) :
          i < j /\ pm_gps[i].t = pm_gps[j].t /\ pm_gps[i].pos > pm_gps[j].pos
    /\ Len(ret.table) < Len(pm_gps)

StageAfter(p) ==
    CASE p = "raw" -> "indexed"
      [] p = "indexed" -> "segmented"
      [] p = "segmented" -> IF weather.given THEN "matched"
                            ELSE IF datetime_to_vec.given THEN "featured" ELSE "split"
      [] p = "matched" -> "gated"
      [] p = "gated" -> IF datetime_to_vec.given THEN "featured" ELSE "split"
      [] p = "featured" -> "split"
      [] p = "split" -> "ready"
      [] OTHER -> p

\* C22: construction passes through its stages in the fixed order indexed,
\* segmented, weather-matched, weather-gated, time-featured, batch-split,
\* pruned/ready, each at most once and never back to an earlier one (a stage
\* whose input is absent is skipped, a failing stage ends construction); the
\* calendar features are computed from the snapshots that survived the gating,
\* and the pruning runs once, on the result of the single split.
C22_StagesInFixedOrder ==
    [][/\ (pc' # pc /\ pc' # "failed") => pc' = StageAfter(pc)
       /\ pc \in {"ready", "failed"} => pc' = pc
       /\ (pc' = "featured" /\ pc # "featured") =>
             /\ weather.given => pc = "gated"
             /\ timestamps' = timestamps
             /\ time_values' = Some([k \in 1..Len(timestamps) |->
                                       timestamp_to_vec(timestamps[k])])
       /\ (pc' = "ready" /\ pc # "ready") => pc = "split"
       /\ pc = "ready" => (pm_gps_idx' = pm_gps_idx /\ timestamps' = timestamps)]_vars

\* a Dataset built through every stage whose single batch survived the pruning
C22_Witness ==
    /\ pc = "ready"
    /\ weather.given
    /\ datetime_to_vec.given
    /\ time_values.some
    /\ length = 1
    /\ unit_idx = <<>>
    /\ Len(seg_idx) > Len(pm_gps_idx[1])

(***************************************************************************)
(* Snapshots of the segmentation.                                          *)
(***************************************************************************)
\* The snapshot timestamps exist and are not yet gated or split.
JustSegmented == pc = "segmented" /\ num_readings > 0

\* C23: the representative timestamp comp_snapshot_timestamps computes for a
\* snapshot (start, end) is the arithmetic mean of the reading timestamps at
\* start..end-1: a defined value between the smallest and the largest
\* timestamp of the snapshot.
C23_TimestampIsMeanOfReadings ==
    JustSegmented =>
        \A k \in 1..Len(seg_idx) :
            LET ts == ReadingsOf(index_values, seg_idx[k])
            IN  /\ timestamps[k] # NaT
                /\ timestamps[k] * Len(ts) = SumSeq(ts)
                /\ \E i \in 1..Len(ts) : ts[i] <= timestamps[k]
                /\ \E i \in 1..Len(ts) : timestamps[k] <= ts[i]

\* C25: for a non-empty ascending array arr, arrays of one element and of equal
\* elements included, the index find_nearest returns for a timestamp lies in
\* 0..len(arr)-1, so that weather_available_mask and __getitem__ never index
\* the weather table out of bounds: after a successful matching the gating
\* does not fail.
C25_NearestIndexInRange ==
    /\ Matched =>
          \A k \in 1..Len(timestamps) :
              timestamps[k] # NaT =>
                  (0 <= weather_idx[k] /\ weather_idx[k] <= Len(weather.index) - 1)
    /\ (weather.given /\ Len(weather.index) > 0 /\ seg_idx # <<>>
          /\ \A k \in 1..Len(seg_idx) : seg_idx[k][1] < seg_idx[k][2]) => pc # "failed"

\* C26: for a non-empty ascending timestamp sequence every row (start, end)
\* returned by comp_snapshot_indices is a non-empty range, start < end, also
\* when the first gap of the sequence is >= snapshot_minutes; so no snapshot a
\* batch exposes has zero readings.
C26_SnapshotsNonEmpty ==
    /\ (Segmented /\ num_readings > 0) =>
          \A k \in 1..Len(seg_idx) : seg_idx[k][1] < seg_idx[k][2]
    /\ (pc = "ready" /\ ret.some) =>
          \A j \in 1..Len(ret.val.pm) : Len(ret.val.pm[j]) > 0

\* The snapshot rows the Dataset holds, as one list.
HeldRows == IF Batched THEN Flatten(pm_gps_idx) ELSE pm_gps_idx

\* split_to_batches is about to compute the gaps between the held rows.
ReadyToSplit == pc = "featured" \/ (AfterWeather /\ ~datetime_to_vec.given)

\* C27: at every stage of construction and when ready, every snapshot row
\* (start, end) the Dataset holds satisfies 0 <= start <= end <= num_readings,
\* the common length of pm_values, gps_values and the floored index; so the
\* slices by a row stay inside the arrays, and the gap computation reads the
\* index at end-1 of a row and at start of the next without leaving the array
\* or wrapping around to its other end.
C27_RowsWithinReadings ==
    Segmented =>
        /\ Len(pm_values) = num_readings
        /\ Len(gps_values) = num_readings
        /\ \A k \in 1..Len(HeldRows) :
              /\ 0 <= HeldRows[k][1]
              /\ HeldRows[k][1] <= HeldRows[k][2]
              /\ HeldRows[k][2] <= num_readings
        /\ ReadyToSplit =>
              \A k \in 1..(Len(pm_gps_idx) - 1) :
                  /\ 0 <= pm_gps_idx[k][2] - 1
                  /\ pm_gps_idx[k + 1][1] <= num_readings - 1

(***************************************************************************)
(* Edge cases of the weather and batch stages.                             *)
(***************************************************************************)
\* The parallel arrays (or, from the split on, lists of per-batch arrays) have
\* one length.
ParallelArraysAligned ==
    /\ Len(timestamps) = Len(pm_gps_idx)
    /\ (weather.given /\ pc \in {"matched", "gated", "featured", "split", "ready"}) =>
          Len(weather_idx) = Len(pm_gps_idx)
    /\ time_values.some => Len(time_values.val) = Len(pm_gps_idx)

\* C24: with an empty weather table, when every snapshot fails the gating, and
\* when every batch of the split is a unit batch, construction never reaches a
\* state whose parallel arrays differ in length, it does not fail, and the
\* Dataset it yields has length() = 0.
C24_EdgeCasesYieldEmptyDataset ==
    /\ (weather.given /\ Len(weather.index) = 0) =>
          /\ ParallelArraysAligned
          /\ pc # "failed"
          /\ pc = "ready" => length = 0
    /\ (weather.given /\ Len(weather.index) > 0 /\ pc \in {"gated", "featured", "split", "ready"}
          /\ \A k \in 1..Len(seg_idx) : ~SurvivesGating(k)) =>
          /\ ParallelArraysAligned
          /\ pc = "ready" => length = 0
    /\ (pc = "split" /\ \A i \in 1..Len(pm_gps_idx) : Len(pm_gps_idx[i]) <= 1) =>
          /\ ParallelArraysAligned
          /\ Len(remove_unit_batches(pm_gps_idx, timestamps, time_values, weather_values,
                                     weather_idx).timestamps) = 0

(***************************************************************************)
(* The retained snapshots as a subsequence of the segmentation.            *)
(***************************************************************************)
\* The 1-based positions in seg_idx at which row r occurs.
SegPositions(r) == {i \in 1..Len(seg_idx) : seg_idx[i] = r}

\* The list rows is seg_idx with some rows left out: its rows can be assigned
\* strictly increasing positions of seg_idx.
RECURSIVE EmbedsFrom(_, _)
EmbedsFrom(rows, from) ==
    IF rows = <<>> THEN TRUE
    ELSE LET later == {i \in SegPositions(Head(rows)) : i >= from}
         IN  later # {} /\ EmbedsFrom(Tail(rows), 1 + CHOOSE i \in later : \A j \in later : i <= j)

\* C28: gating, batch splitting and unit-batch pruning only remove snapshots:
\* the concatenation of the batches the Dataset holds, in batch order, is an
\* order-preserving subsequence of the snapshot sequence of the segmentation,
\* and no snapshot appears twice in it, so none is in two batches.
C28_RetainedSnapshotsAreSubsequence ==
    (Segmented /\ pc # "failed") =>
        /\ EmbedsFrom(HeldRows, 1)
        /\ \A p, q \in 1..Len(HeldRows) : p # q => HeldRows[p] # HeldRows[q]

\* the first of three snapshots was removed and the other two form the batch
C28_Witness ==
    /\ pc = "ready"
    /\ length = 1
    /\ Len(seg_idx) = 3
    /\ pm_gps_idx[1] = <<seg_idx[2], seg_idx[3]>>

(***************************************************************************)
(* Construction from a table that is already prepared.                     *)
(***************************************************************************)
\* C29: a second construction from the same table object, already changed in
\* place by a first construction with the same snapshot_minutes and optional
\* inputs, does not fail and yields the same snapshot indices, timestamps,
\* batches and length() as the first.
C29_SecondConstructionAgrees ==
    previous.some =>
        /\ pc # "failed"
        /\ Segmented => seg_idx = previous.dataset.seg_idx
        /\ pc = "ready" =>
              /\ pm_gps_idx = previous.dataset.pm_gps_idx
              /\ timestamps = previous.dataset.timestamps
              /\ weather_idx = previous.dataset.weather_idx
              /\ time_values = previous.dataset.time_values
              /\ pm_values = previous.dataset.pm_values
              /\ gps_values = previous.dataset.gps_values
              /\ length = previous.dataset.length

\* both Datasets are complete, built with weather from a table floored to two
\* minutes, and hold a batch
C29_Witness ==
    /\ previous.some
    /\ pc = "ready"
    /\ snapshot_minutes = 2
    /\ weather.given
    /\ previous.dataset.length = 1
    /\ length = 1

====
